---- MODULE Spec2Model ----
(***************************************************************************)
(* points_to_h3.py: main() reads a point layer, drops rows without a       *)
(* score, coerces the score column, assigns every point to an H3 cell,     *)
(* averages the score per cell, turns the cells into polygons and writes   *)
(* them.  One action per statement group of main(); pc is the position in  *)
(* main().                                                                 *)
(*                                                                         *)
(* The library calls are modelled by what they do:                         *)
(*  - the globe is a line of positions 0..MaxPos; the cell of resolution r *)
(*    holding a position is a run of Width(r) consecutive positions.  The  *)
(*    widths of the two resolutions do not divide each other: H3's grids   *)
(*    are hexagonal at every resolution and a hexagon is not a union of    *)
(*    smaller hexagons, so a fine cell can lie across the edge between two *)
(*    coarse cells.                                                        *)
(*  - a score value is a tagged value: null, num (a number), txt (the text *)
(*    of a number), empty (the empty text) or bad (other text that is no   *)
(*    number).                                                             *)
(*  - a mean is the exact fraction sum/count, reduced.                     *)
(***************************************************************************)
EXTENDS Integers, Sequences, FiniteSets, TLC

\* Most features in an input layer (one run; two runs).
MaxRecords == 3
MaxRecordsTwo == 2
\* Scores are 1..MaxScore.
MaxScore == 4

\* The two resolutions a run is started with, and the number of positions a cell
\* of each covers (the finer resolution has the smaller cells).
CoarseRes == 5
FineRes == 9
CoarseWidth == 3
FineWidth == 2

\* Positions 0..MaxPos: the first coarse cell and the first position of the next.
MaxPos == CoarseWidth

VARIABLES file, res, pc, err, gdf, dtype, gdf_h3, gvi_mean, gvi_hex, out, log, run, prev

vars == <<file, res, pc, err, gdf, dtype, gdf_h3, gvi_mean, gvi_hex, out, log, run, prev>>

score_field == "gvi"

Resolutions == {CoarseRes, FineRes}

(* ---------------------------------------------------------------- values *)

Null == [k |-> "null", v |-> 0]
Bad == [k |-> "bad", v |-> 0]
Empty == [k |-> "empty", v |-> 0]
Num(n) == [k |-> "num", v |-> n]
Txt(n) == [k |-> "txt", v |-> n]

\* The column types a score field can be read with: a numeric type, numpy's
\* object type holding text ("object"), and the pandas string type ("string").
Dtypes == {"numeric", "object", "string"}

ScoreValues(d) ==
  IF d = "numeric"
  THEN {Null} \cup {Num(n) : n \in 1..MaxScore}
  ELSE {Null, Empty, Bad} \cup {Txt(n) : n \in 1..MaxScore}

\* The geometries of a feature, numbered: a Point at each position, and a Polygon.
NumShapes == MaxPos + 2

ShapeAt(i) ==
  IF i <= MaxPos THEN [geom |-> "Point", pos |-> i] ELSE [geom |-> "Polygon", pos |-> 0]

\* The values of a score column of type d, numbered.
NumValues(d) == IF d = "numeric" THEN MaxScore + 1 ELSE MaxScore + 3

ValueAt(d, j) ==
  IF j = 0 THEN Null
  ELSE IF j = MaxScore + 1 THEN Empty
  ELSE IF j > MaxScore + 1 THEN Bad
  ELSE IF d = "numeric" THEN Num(j) ELSE Txt(j)

\* The feature codes are in non-decreasing order: a layer is enumerated once for
\* all the orders of its features (the null filter keeps the order, the group-by
\* sorts by cell, a mean is a sum).
NonDecreasing(codes) == \A i \in 1..(Len(codes) - 1) : codes[i] <= codes[i + 1]

MkRows(d, codes) ==
  [i \in 1..Len(codes) |->
     [fid |-> i,
      geom |-> ShapeAt(codes[i] \div NumValues(d)).geom,
      pos |-> ShapeAt(codes[i] \div NumValues(d)).pos,
      score |-> ValueAt(d, codes[i] % NumValues(d))]]

NoFile ==
  [exists |-> FALSE, parseable |-> FALSE, columns |-> {}, dtype |-> "numeric", rows |-> <<>>]

BadFile ==
  [exists |-> TRUE, parseable |-> FALSE, columns |-> {}, dtype |-> "numeric", rows |-> <<>>]

\* A layer without the score field: its rows carry no score.
PlainLayer(shapes) ==
  [exists |-> TRUE, parseable |-> TRUE, columns |-> {"geometry"}, dtype |-> "numeric",
   rows |-> [i \in 1..Len(shapes) |->
               [fid |-> i, geom |-> ShapeAt(shapes[i]).geom, pos |-> ShapeAt(shapes[i]).pos,
                score |-> Null]]]

ScoredLayer(d, codes) ==
  [exists |-> TRUE, parseable |-> TRUE, columns |-> {"geometry", score_field},
   dtype |-> d, rows |-> MkRows(d, codes)]

\* f is an input path: missing, unreadable, or a layer of at most n features.
IsFile(f, n) ==
  \/ f = NoFile
  \/ f = BadFile
  \/ \E k \in 0..n : \E s \in [1..k -> 0..(NumShapes - 1)] :
       NonDecreasing(s) /\ f = PlainLayer(s)
  \/ \E d \in Dtypes : \E k \in 0..n :
       \E c \in [1..k -> 0..(NumShapes * NumValues(d) - 1)] :
         NonDecreasing(c) /\ f = ScoredLayer(d, c)

NoOutput == [state |-> "none", rows |-> <<>>]

NoPrev == [res |-> 0, pc |-> "none", err |-> "none", hex |-> <<>>, out |-> NoOutput]

Terminal == {"done", "failed"}

(* ------------------------------------------------------------- the stages *)

RECURSIVE SelectRows(_, _)
SelectRows(rows, keep) ==
  IF rows = <<>> THEN <<>>
  ELSE IF Head(rows).fid \in keep
       THEN <<Head(rows)>> \o SelectRows(Tail(rows), keep)
       ELSE SelectRows(Tail(rows), keep)

path_exists(f) == f.exists

read_file_ok(f) == f.exists /\ f.parseable

geometry_types(f) == {f.rows[i].geom : i \in 1..Len(f.rows)}

\* Mutant: any geometry type passes the point check.
HasPoint_any(f) == geometry_types(f) # {}

HasPoint(f) == "Point" \in geometry_types(f)

\* Mutant: the field check looks at the columns without looking for the field.
HasScoreField_any(f) == f.columns # {}

HasScoreField(f) == score_field \in f.columns

read_file(f) == f.rows

\* The empty text is not null.
isna(x) == x.k = "null"

dropna(rows) == SelectRows(rows, {rows[i].fid : i \in {j \in 1..Len(rows) : ~isna(rows[j].score)}})

\* Line 89 compares the column's type with the class pd.StringDtype.  A numpy
\* type on the left converts the class to a type first, and every class that is
\* no scalar type converts to object: the comparison is true for an object column.
\* A pandas string type on the left compares an instance with its class: false.
IsStringDtype(d) == d = "object"

\* pd.to_numeric, errors='raise': the text of a number is that number, the empty
\* text and a null are NaN, any other text raises.
parses(x) == x.k \in {"num", "txt", "empty", "null"}

to_numeric_ok(rows) == \A i \in 1..Len(rows) : parses(rows[i].score)

to_numeric(rows) ==
  [i \in 1..Len(rows) |->
     [rows[i] EXCEPT !.score = IF rows[i].score.k \in {"empty", "null"}
                               THEN Null ELSE Num(rows[i].score.v)]]

Width(r) == IF r <= CoarseRes THEN CoarseWidth ELSE FineWidth

\* Mutant: the resolution scale read upside down (0 taken for the finest).
CellOf_inverted(pos, r) == <<r, pos \div Width(CoarseRes + FineRes - r)>>

CellOf(pos, r) == <<r, pos \div Width(r)>>

\* The coordinates of a row are read from a Point; any other geometry raises.
geo_to_h3_ok(rows) == \A i \in 1..Len(rows) : rows[i].geom = "Point"

geo_to_h3(rows, r) ==
  [i \in 1..Len(rows) |->
     [fid |-> rows[i].fid, score |-> rows[i].score, h3 |-> CellOf(rows[i].pos, r)]]

RECURSIVE Gcd(_, _)
Gcd(a, b) == IF b = 0 THEN a ELSE Gcd(b, a % b)

RECURSIVE Sum(_)
Sum(s) == IF s = <<>> THEN 0 ELSE Head(s) + Sum(Tail(s))

\* The mean of no number is NaN, written 0/0.
mean(s) ==
  IF s = <<>> THEN <<0, 0>>
  ELSE <<Sum(s) \div Gcd(Sum(s), Len(s)), Len(s) \div Gcd(Sum(s), Len(s))>>

\* The numbers among the scores of a cell: a mean skips the nulls.
RECURSIVE ScoresOf(_, _)
ScoresOf(rows, cell) ==
  IF rows = <<>> THEN <<>>
  ELSE IF Head(rows).h3 = cell /\ Head(rows).score.k = "num"
       THEN <<Head(rows).score.v>> \o ScoresOf(Tail(rows), cell)
       ELSE ScoresOf(Tail(rows), cell)

RECURSIVE SortedCells(_)
SortedCells(S) ==
  IF S = {} THEN <<>>
  ELSE LET m == CHOOSE c \in S : \A d \in S : c[2] <= d[2]
       IN <<m>> \o SortedCells(S \ {m})

\* A mean over text scores raises.
agg_ok(rows) == \A i \in 1..Len(rows) : rows[i].score.k \in {"num", "null"}

\* Mutant: no grouping, one output row per point.
groupby_none(rows) ==
  [j \in 1..Len(rows) |-> [h3 |-> rows[j].h3, mean |-> mean(<<rows[j].score.v>>)]]

groupby_mean(rows) ==
  LET keys == SortedCells({rows[i].h3 : i \in 1..Len(rows)})
  IN [j \in 1..Len(keys) |-> [h3 |-> keys[j], mean |-> mean(ScoresOf(rows, keys[j]))]]

cell_boundary(c) == [lo |-> c[2] * Width(c[1]), hi |-> (c[2] + 1) * Width(c[1])]

h3_to_geo_boundary(m) ==
  [j \in 1..Len(m) |-> [h3 |-> m[j].h3, mean |-> m[j].mean, geometry |-> cell_boundary(m[j].h3)]]

\* Mutant: the writer appends to the file it finds.
to_file_append(hex, old) == [state |-> "complete", rows |-> old.rows \o hex]

to_file(hex, old) == [state |-> "complete", rows |-> hex]

\* Mutant: the field check placed before the point check.
After_field_first(stage) ==
  CASE stage = "exists" -> "readable"
    [] stage = "readable" -> "field"
    [] stage = "field" -> "point"
    [] stage = "point" -> "load"
    [] stage = "load" -> "dropna"
    [] stage = "dropna" -> "coerce"
    [] stage = "coerce" -> "assign"
    [] stage = "assign" -> "aggregate"
    [] stage = "aggregate" -> "boundary"
    [] stage = "boundary" -> "write"
    [] stage = "write" -> "done"

\* Mutant: the export left out.
After_no_write(stage) ==
  CASE stage = "exists" -> "readable"
    [] stage = "readable" -> "point"
    [] stage = "point" -> "field"
    [] stage = "field" -> "load"
    [] stage = "load" -> "dropna"
    [] stage = "dropna" -> "coerce"
    [] stage = "coerce" -> "assign"
    [] stage = "assign" -> "aggregate"
    [] stage = "aggregate" -> "boundary"
    [] stage = "boundary" -> "done"
    [] stage = "write" -> "done"

After(stage) ==
  CASE stage = "exists" -> "readable"
    [] stage = "readable" -> "point"
    [] stage = "point" -> "field"
    [] stage = "field" -> "load"
    [] stage = "load" -> "dropna"
    [] stage = "dropna" -> "coerce"
    [] stage = "coerce" -> "assign"
    [] stage = "assign" -> "aggregate"
    [] stage = "aggregate" -> "boundary"
    [] stage = "boundary" -> "write"
    [] stage = "write" -> "done"

(* ------------------------------------------------------------ the actions *)

Frames == <<gdf, dtype, gdf_h3, gvi_mean, gvi_hex>>

Proceed == pc' = After(pc) /\ err' = err /\ log' = Append(log, pc)

Raise(e) == pc' = "failed" /\ err' = e /\ log' = Append(log, pc)

Static == UNCHANGED <<file, res, run, prev>>

CheckExists ==
  /\ pc = "exists"
  /\ IF path_exists(file) THEN Proceed ELSE Raise("InputNotFound")
  /\ UNCHANGED <<Frames, out>>
  /\ Static

CheckReadable ==
  /\ pc = "readable"
  /\ IF read_file_ok(file) THEN Proceed ELSE Raise("UnreadableGeometry")
  /\ UNCHANGED <<Frames, out>>
  /\ Static

CheckPoint ==
  /\ pc = "point"
  /\ IF HasPoint(file) THEN Proceed ELSE Raise("NoPointGeometry")
  /\ UNCHANGED <<Frames, out>>
  /\ Static

CheckField ==
  /\ pc = "field"
  /\ IF HasScoreField(file) THEN Proceed ELSE Raise("MissingScoreField")
  /\ UNCHANGED <<Frames, out>>
  /\ Static

Load ==
  /\ pc = "load"
  /\ gdf' = read_file(file)
  /\ dtype' = file.dtype
  /\ Proceed
  /\ UNCHANGED <<gdf_h3, gvi_mean, gvi_hex, out>>
  /\ Static

DropNa ==
  /\ pc = "dropna"
  /\ gdf' = dropna(gdf)
  /\ Proceed
  /\ UNCHANGED <<dtype, gdf_h3, gvi_mean, gvi_hex, out>>
  /\ Static

Coerce ==
  /\ pc = "coerce"
  /\ IF IsStringDtype(dtype)
     THEN IF to_numeric_ok(gdf)
          THEN gdf' = to_numeric(gdf) /\ dtype' = "numeric" /\ Proceed
          ELSE Raise("ScoreCoercionError") /\ UNCHANGED <<gdf, dtype>>
     ELSE Proceed /\ UNCHANGED <<gdf, dtype>>
  /\ UNCHANGED <<gdf_h3, gvi_mean, gvi_hex, out>>
  /\ Static

Assign ==
  /\ pc = "assign"
  /\ IF geo_to_h3_ok(gdf)
     THEN gdf_h3' = geo_to_h3(gdf, res) /\ Proceed
     ELSE Raise("CellAssignError") /\ UNCHANGED gdf_h3
  /\ UNCHANGED <<gdf, dtype, gvi_mean, gvi_hex, out>>
  /\ Static

Aggregate ==
  /\ pc = "aggregate"
  /\ IF agg_ok(gdf_h3)
     THEN gvi_mean' = groupby_mean(gdf_h3) /\ Proceed
     ELSE Raise("AggregationError") /\ UNCHANGED gvi_mean
  /\ UNCHANGED <<gdf, dtype, gdf_h3, gvi_hex, out>>
  /\ Static

Boundary ==
  /\ pc = "boundary"
  /\ gvi_hex' = h3_to_geo_boundary(gvi_mean)
  /\ Proceed
  /\ UNCHANGED <<gdf, dtype, gdf_h3, gvi_mean, out>>
  /\ Static

Write ==
  /\ pc = "write"
  /\ out' = to_file(gvi_hex, out)
  /\ Proceed
  /\ UNCHANGED Frames
  /\ Static

\* The writer fails (unsupported format, permissions, disk): the file is left as
\* the writer left it, untouched or holding some of the rows.
WriteFails ==
  /\ pc = "write"
  /\ \E k \in 0..Len(gvi_hex) :
       out' \in {out, [state |-> "partial", rows |-> SubSeq(gvi_hex, 1, k)]}
  /\ Raise("WriteError")
  /\ UNCHANGED Frames
  /\ Static

\* A second invocation of the program on the same input file: a new process, the
\* output path as the first run left it.
Rerun ==
  /\ pc \in Terminal
  /\ run = 1
  /\ run' = 2
  /\ prev' = [res |-> res, pc |-> pc, err |-> err, hex |-> gvi_hex, out |-> out]
  /\ res' \in Resolutions
  /\ pc' = "exists"
  /\ err' = "none"
  /\ log' = <<>>
  /\ gdf' = <<>>
  /\ dtype' = "numeric"
  /\ gdf_h3' = <<>>
  /\ gvi_mean' = <<>>
  /\ gvi_hex' = <<>>
  /\ UNCHANGED <<file, out>>

Start(n) ==
  /\ IsFile(file, n)
  /\ res \in Resolutions
  /\ pc = "exists"
  /\ err = "none"
  /\ log = <<>>
  /\ gdf = <<>>
  /\ dtype = "numeric"
  /\ gdf_h3 = <<>>
  /\ gvi_mean = <<>>
  /\ gvi_hex = <<>>
  /\ out = NoOutput
  /\ run = 1
  /\ prev = NoPrev

Init == Start(MaxRecords)

InitTwo == Start(MaxRecordsTwo)

Next ==
  \/ CheckExists
  \/ CheckReadable
  \/ CheckPoint
  \/ CheckField
  \/ Load
  \/ DropNa
  \/ Coerce
  \/ Assign
  \/ Aggregate
  \/ Boundary
  \/ Write
  \/ WriteFails

NextTwo == Next \/ Rerun

Spec == Init /\ [][Next]_vars

SpecTwo == InitTwo /\ [][NextTwo]_vars


(* --------------------------------------------------------------- the claims *)

StageOrder ==
  <<"exists", "readable", "point", "field", "load", "dropna", "coerce",
    "assign", "aggregate", "boundary", "write">>

IsLayer == file.exists /\ file.parseable

NoPointIn(f) == \A i \in 1..Len(f.rows) : f.rows[i].geom # "Point"

NonNullFids == {i \in 1..Len(file.rows) : file.rows[i].score.k # "null"}

Executed(stage) == \E i \in 1..Len(log) : log[i] = stage

RECURSIVE SumOver(_, _)
SumOver(rows, I) ==
  IF I = {} THEN 0
  ELSE LET i == CHOOSE x \in I : TRUE IN rows[i].score.v + SumOver(rows, I \ {i})

MembersOf(cell) == {i \in 1..Len(gdf_h3) : gdf_h3[i].h3 = cell}

\* C1: a layer whose geometry types do not include Point fails with
\* NoPointGeometry, and no stage after the point check (field check, load,
\* cell assignment, aggregation, boundaries, write) ever executes on it.
C1_NoPointFails ==
  (IsLayer /\ NoPointIn(file)) =>
    /\ pc \in {"exists", "readable", "point", "failed"}
    /\ (pc = "failed" => err = "NoPointGeometry")
    /\ \A i \in 1..Len(log) : log[i] \in {"exists", "readable", "point"}
    /\ gdf_h3 = <<>> /\ gvi_mean = <<>> /\ gvi_hex = <<>> /\ out = NoOutput

C1_Witness ==
  /\ IsLayer /\ NoPointIn(file) /\ Len(file.rows) > 0 /\ score_field \in file.columns
  /\ pc = "failed" /\ err = "NoPointGeometry"

\* C2 as stated: every layer whose columns lack the score field fails with
\* MissingScoreField.
C2_Original ==
  (IsLayer /\ score_field \notin file.columns /\ pc = "failed") => err = "MissingScoreField"

\* C2 amended: every layer that holds a Point geometry and whose columns lack
\* the score field fails with MissingScoreField, before the layer is loaded.
C2_MissingFieldFails ==
  (IsLayer /\ ~NoPointIn(file) /\ score_field \notin file.columns) =>
    /\ pc \in {"exists", "readable", "point", "field", "failed"}
    /\ (pc = "failed" => err = "MissingScoreField")

C2_Witness ==
  /\ IsLayer /\ ~NoPointIn(file) /\ score_field \notin file.columns
  /\ pc = "failed" /\ err = "MissingScoreField"

\* C3 as stated: a run ends with every stage done and one output file written,
\* or failed with no output file or partial output at all, whichever stage failed.
C3_Original ==
  /\ (pc = "done" => out.state = "complete" /\ log = StageOrder)
  /\ (pc = "failed" => out.state = "none")

\* C3 amended: a run ends with every stage done and the one output file written
\* in full, or failed; a failure before the write leaves no output file, and a
\* failure of the write leaves the file as the writer left it, absent or partial.
C3_AllOrNothingBeforeWrite ==
  /\ (pc = "done" => out = [state |-> "complete", rows |-> gvi_hex] /\ log = StageOrder)
  /\ (pc = "failed" /\ err # "WriteError" => out.state = "none" /\ ~Executed("write"))
  /\ (pc = "failed" /\ err = "WriteError" => out.state \in {"none", "partial"})
  /\ (pc \notin Terminal => out.state = "none")

C3_Witness ==
  /\ pc = "failed" /\ err = "WriteError" /\ out.state = "partial" /\ Len(out.rows) >= 1

\* C4: every row handed to the cell assignment has a score that is not null and
\* is a number, whatever the type of the score column.
C4_ScoresNumeric ==
  pc \in {"assign", "aggregate", "boundary", "write", "done"} =>
    \A i \in 1..Len(gdf) : gdf[i].score.k = "num"

\* C5: the aggregate holds one row per cell that a null-filtered point was
\* assigned to: no cell twice, every populated cell, no other cell.
C5_OneRowPerCell ==
  pc \in {"boundary", "write", "done"} =>
    /\ \A i, j \in 1..Len(gvi_mean) : gvi_mean[i].h3 = gvi_mean[j].h3 => i = j
    /\ {gvi_mean[j].h3 : j \in 1..Len(gvi_mean)} = {gdf_h3[i].h3 : i \in 1..Len(gdf_h3)}
    /\ {gdf_h3[i].fid : i \in 1..Len(gdf_h3)} = NonNullFids
    /\ (pc \in {"write", "done"} =>
          /\ Len(gvi_hex) = Len(gvi_mean)
          /\ \A j \in 1..Len(gvi_hex) : gvi_hex[j].h3 = gvi_mean[j].h3)
    /\ (pc = "done" => out.rows = gvi_hex)

C5_Witness ==
  /\ pc = "done" /\ Len(gdf_h3) = 3 /\ Len(out.rows) = 2

\* C6: the score of an output cell is the sum of the scores of the surviving
\* points assigned to the cell divided by their number: 2 and 4 give 3, and
\* 1, 2, 3 give 2.
C6_MeanPerCell ==
  pc \in {"boundary", "write", "done"} =>
    \A j \in 1..Len(gvi_mean) :
      LET M == MembersOf(gvi_mean[j].h3)
          m == gvi_mean[j].mean
      IN /\ M # {}
         /\ m[2] > 0
         /\ m[1] * Cardinality(M) = m[2] * SumOver(gdf_h3, M)
         /\ (Cardinality(M) = 2 /\ {gdf_h3[i].score.v : i \in M} = {2, 4} => m = <<3, 1>>)
         /\ (Cardinality(M) = 3 /\ {gdf_h3[i].score.v : i \in M} = {1, 2, 3} => m = <<2, 1>>)
         /\ (pc \in {"write", "done"} => gvi_hex[j].mean = m)

\* C7: no row with a null score leaves the Score Normalizer and none is added, so
\* the points that reach a cell are at most the input rows with a score, no row
\* with a null score is assigned a cell, and every output cell holds a point
\* whose score is not null.
C7_NullsExcluded ==
  /\ (pc \in {"coerce", "assign", "aggregate", "boundary", "write", "done"} =>
        /\ {gdf[i].fid : i \in 1..Len(gdf)} \subseteq NonNullFids
        /\ Len(gdf) <= Cardinality(NonNullFids))
  /\ (pc \in {"aggregate", "boundary", "write", "done"} =>
        /\ Len(gdf_h3) <= Cardinality(NonNullFids)
        /\ \A i \in 1..Len(gdf_h3) : gdf_h3[i].score.k # "null")
  /\ (pc \in {"write", "done"} =>
        \A j \in 1..Len(gvi_hex) :
          \E i \in 1..Len(gdf_h3) :
            /\ gdf_h3[i].h3 = gvi_hex[j].h3
            /\ gdf_h3[i].fid \in NonNullFids
            /\ gdf_h3[i].score.k # "null")

Surviving == {i \in 1..Len(file.rows) : file.rows[i].score.k # "null"}

\* No two surviving points share a fine cell while lying in different coarse cells.
NoStraddle ==
  \A i, j \in Surviving :
    file.rows[i].pos \div FineWidth = file.rows[j].pos \div FineWidth
      => file.rows[i].pos \div CoarseWidth = file.rows[j].pos \div CoarseWidth

BothDone == run = 2 /\ pc = "done" /\ prev.pc = "done"

\* C8 as stated: the run at the coarse resolution never yields more cells than
\* the run of the same layer at the fine resolution.
C8_Original ==
  /\ (BothDone /\ prev.res = CoarseRes /\ res = FineRes => Len(prev.out.rows) <= Len(out.rows))
  /\ (BothDone /\ prev.res = FineRes /\ res = CoarseRes => Len(out.rows) <= Len(prev.out.rows))

\* C8 amended: when no two surviving points share a fine cell while lying in
\* different coarse cells, the run at the coarse resolution yields no more cells
\* than the run of the same layer at the fine resolution.
C8_CoarseNoMoreCells ==
  NoStraddle =>
    /\ (BothDone /\ prev.res = CoarseRes /\ res = FineRes => Len(prev.out.rows) <= Len(out.rows))
    /\ (BothDone /\ prev.res = FineRes /\ res = CoarseRes => Len(out.rows) <= Len(prev.out.rows))

C8_Witness ==
  /\ NoStraddle /\ BothDone /\ prev.res = CoarseRes /\ res = FineRes
  /\ Len(prev.out.rows) = 1 /\ Len(out.rows) = 2

\* C9: a second run on the same layer at the same resolution ends as the first
\* did and writes the same cells, means and polygons; what the first run left
\* behind changes nothing.
C9_SameOutput ==
  (run = 2 /\ res = prev.res /\ pc \in Terminal) =>
    /\ (prev.err # "WriteError" /\ err # "WriteError" => pc = prev.pc /\ err = prev.err)
    /\ (prev.err = "WriteError" => pc = "done" \/ err = "WriteError")
    /\ ((prev.pc = "done" \/ prev.err = "WriteError") /\ (pc = "done" \/ err = "WriteError")
          => gvi_hex = prev.hex)
    /\ (pc = "done" => out = [state |-> "complete", rows |-> gvi_hex])
    /\ (pc = "done" /\ prev.pc = "done" => out = prev.out)

C9_Witness ==
  /\ run = 2 /\ res = prev.res /\ pc = "done" /\ prev.pc = "done" /\ Len(out.rows) = 2

\* C10: the checks run in the order path exists, readable, holds a Point, holds
\* the score field; the run stops at the first that fails with that check's
\* error; the later stages run only after all four passed, each after the one
\* before it.
C10_FirstFailure ==
  IF ~file.exists THEN "InputNotFound"
  ELSE IF ~file.parseable THEN "UnreadableGeometry"
  ELSE IF NoPointIn(file) THEN "NoPointGeometry"
  ELSE IF score_field \notin file.columns THEN "MissingScoreField"
  ELSE "none"

C10_Ordered ==
  /\ Len(log) <= Len(StageOrder)
  /\ \A i \in 1..Len(log) : log[i] = StageOrder[i]
  /\ (pc \notin Terminal => pc = StageOrder[Len(log) + 1])
  /\ (C10_FirstFailure # "none" =>
        /\ Len(log) <= 4
        /\ pc # "done"
        /\ (pc = "failed" => err = C10_FirstFailure))
  /\ (Len(log) > 4 \/ (pc = "failed" /\ C10_FirstFailure = "none") =>
        err \notin {"InputNotFound", "UnreadableGeometry", "NoPointGeometry",
                    "MissingScoreField"})
  /\ (pc = "failed" /\ Len(log) <= 4 => err = C10_FirstFailure /\ err # "none")

C10_Witness ==
  /\ IsLayer /\ NoPointIn(file) /\ score_field \notin file.columns /\ Len(file.rows) > 0
  /\ pc = "failed" /\ err = "NoPointGeometry" /\ log = <<"exists", "readable", "point">>

====
